---- MODULE Spec2Model ----
(***************************************************************************)
(* State-machine model of ssd1306lib (src/oled.c): the interrupt-driven    *)
(* TWI/I2C transmit FSM with its single-slot scheduler, the lock-protected *)
(* page-by-page refresh pipeline, and the rasterizer primitives.           *)
(*                                                                         *)
(* Three families of behaviours are specified over the same state:         *)
(*   SpecBus     foreground code calling OLED_i2c_tx_shed directly         *)
(*   SpecDriver  an application using init / refresh / brightness / lock   *)
(*   SpecRaster  the drawing primitives applied to bounded inputs          *)
(***************************************************************************)
EXTENDS Integers, Sequences, FiniteSets, TLC

VARIABLES
    i2c,    \* the static descriptor and FSM state (oled.c:55-62, 72)
    twi,    \* the TWI peripheral: data register and pending-interrupt flag
    mem,    \* the byte arrays reachable through pointers, by name
    oled,   \* the display handle (OLED struct filled by __OLED_init)
    fg,     \* the foreground program: position and arguments of its call
    obs     \* history of what was admitted, transmitted and called back

vars == <<i2c, twi, mem, oled, fg, obs>>

(***************************************************************************)
(* Bounds of the model.                                                    *)
(***************************************************************************)
\* longest prefix / payload array a direct caller of the scheduler supplies
MaxLen == 2

(***************************************************************************)
(* Program constants.                                                      *)
(***************************************************************************)
\* static uint8_t *i2c_prefix_count: a 16-bit object on the AVR target
PrefixCountMod == 65536
\* static uint16_t i2c_data_count
DataCountMod == 65536
\* uint8_t arithmetic (i2c_devaddr, coordinates, command bytes)
ByteMod == 256

I2C_STATE_IDLE == "IDLE"
I2C_STATE_STOP == "STOP"
I2C_STATE_SLAVEADDR == "SLAVEADDR"
I2C_STATE_WRITEPREFIX == "WRITEPREFIX"
I2C_STATE_WRITEBYTE == "WRITEBYTE"

\* pointers: NULL, or an array name of mem with an element offset
NULL == [arr |-> "NULL", off |-> 0]
Ptr(a, o) == [arr |-> a, off |-> o]

\* the whole machine state as one value, so that a handler and the calls it
\* makes compose as functions from state to state
St == [i2c |-> i2c, twi |-> twi, mem |-> mem, oled |-> oled, obs |-> obs]

Become(s) ==
    /\ i2c' = s.i2c
    /\ twi' = s.twi
    /\ mem' = s.mem
    /\ oled' = s.oled
    /\ obs' = s.obs

\* values a direct caller puts in its arrays, and what a read past the end of
\* an array may return
UserBytes == {17, 34}
Addrs == {60, 61}

InBounds(s, p) ==
    /\ p.arr \in DOMAIN s.mem
    /\ p.off + 1 \in 1..Len(s.mem[p.arr])

\* *p: the element when p points into its array; g (any byte) when it does not
Deref(s, p, g) == IF InBounds(s, p) THEN s.mem[p.arr][p.off + 1] ELSE g

\* history records before any admission / any completion
NoAdm ==
    [addr |-> 0, prefix |-> NULL, prefix_len |-> 0, bytes |-> NULL, bytes_len |-> 0,
     pre |-> << >>, dat |-> << >>, cbk |-> "none", args |-> "NULL", from_isr |-> FALSE]

NoLast ==
    [adm |-> NoAdm, wire |-> << >>, sent |-> 0, cbk |-> "none", ctx |-> "NULL"]

(***************************************************************************)
(* bool OLED_i2c_tx_shed(addr, prefix, prefix_len, bytes, bytes_len,       *)
(*                       end_cbk, cbk_args, fastfail)                      *)
(* The ATOMIC_BLOCK makes the test of i2c_state and the installation one   *)
(* step.  Result: the new state and the returned bool.                     *)
(***************************************************************************)
\* oled.c:106-117: the descriptor installed, the START condition requested
Install(s, addr, prefix, prefix_len, bytes, bytes_len, end_cbk, cbk_args, fastfail) ==
    [s EXCEPT
        !.i2c = [prefix_ptr    |-> prefix,
                 prefix_count  |-> prefix_len % PrefixCountMod,
                 data_ptr      |-> bytes,
                 data_count    |-> bytes_len % DataCountMod,
                 is_fastfail   |-> fastfail,
                 callback      |-> end_cbk,
                 callback_args |-> cbk_args,
                 state         |-> I2C_STATE_SLAVEADDR,
                 devaddr       |-> (addr * 2) % ByteMod],
        !.twi.irq = TRUE,
        !.obs.adm = [addr |-> addr,
                     prefix |-> prefix, prefix_len |-> prefix_len,
                     bytes |-> bytes, bytes_len |-> bytes_len,
                     pre |-> IF prefix = NULL THEN << >> ELSE s.mem[prefix.arr],
                     dat |-> IF bytes = NULL THEN << >> ELSE s.mem[bytes.arr],
                     cbk |-> end_cbk, args |-> cbk_args,
                     from_isr |-> s.obs.in_isr],
        !.obs.outstanding = @ + 1,
        !.obs.last = NoLast,
        !.obs.wire = << >>,
        !.obs.sent = 0]

\* a scheduler that takes the terminal STOP state for idle as well
OLED_i2c_tx_shed_StopIsIdle(s, addr, prefix, prefix_len, bytes, bytes_len, end_cbk, cbk_args, fastfail) ==
    IF s.i2c.state \in {I2C_STATE_IDLE, I2C_STATE_STOP}
    THEN [ret |-> TRUE,
          st |-> Install(s, addr, prefix, prefix_len, bytes, bytes_len,
                         end_cbk, cbk_args, fastfail)]
    ELSE [ret |-> FALSE, st |-> s]

OLED_i2c_tx_shed(s, addr, prefix, prefix_len, bytes, bytes_len, end_cbk, cbk_args, fastfail) ==
    IF s.i2c.state = I2C_STATE_IDLE
    THEN [ret |-> TRUE,
          st |-> Install(s, addr, prefix, prefix_len, bytes, bytes_len,
                         end_cbk, cbk_args, fastfail)]
    ELSE [ret |-> FALSE, st |-> s]

(***************************************************************************)
(* The cooperative lock of oled.h (busy_lock: 1 unlocked, 0 locked).       *)
(***************************************************************************)
OLED_unlock(s) == [s EXCEPT !.oled.busy_lock = 1]

\* one attempt of the spin loop: take the lock if it is free
OLED_trylock(s) ==
    IF s.oled.busy_lock = 1
    THEN [ret |-> TRUE, st |-> [s EXCEPT !.oled.busy_lock = 0]]
    ELSE [ret |-> FALSE, st |-> s]

\* bitwise or of two bytes
RECURSIVE BitOr(_, _)
BitOr(a, b) ==
    IF a = 0 THEN b
    ELSE IF b = 0 THEN a
    ELSE (IF a % 2 = 1 \/ b % 2 = 1 THEN 1 ELSE 0) + 2 * BitOr(a \div 2, b \div 2)

\* length of _i2c_cmd_setpage and the page-select opcode patched into it
SetPageLen == 6
PageSelectBase == 176

\* a busy-retry loop entered with bus interrupts blocked never ends once an
\* attempt is rejected: the handler does not return
Spin(r, s) == IF r.ret THEN r.st ELSE [s EXCEPT !.obs.hang = TRUE]

(***************************************************************************)
(* Completion callbacks.                                                   *)
(***************************************************************************)
OLED_cbk_empty(s, args) == s

OLED_cbk_unlock(s, args) == OLED_unlock(s)

\* oled.c:207: patch the page index into the set-cursor command
SetPageCmd(s) ==
    [s EXCEPT !.mem["setpage"][SetPageLen] = BitOr(PageSelectBase, s.oled.cur_page)]

\* oled.c:208-210: one attempt to schedule the set-cursor command
SetPageSched(s) ==
    OLED_i2c_tx_shed(s, s.oled.i2c_addr, Ptr("setpage", 0), SetPageLen, NULL, 0,
                     "OLED_cbk_writepage", "oled", TRUE)

\* a set-cursor continuation that also releases the lock
OLED_cbk_setwritepage_Unlocking(s, args) ==
    LET s1 == SetPageCmd(OLED_unlock(s))
    IN Spin(SetPageSched(s1), s1)

OLED_cbk_setwritepage(s, args) ==
    LET s1 == SetPageCmd(s)
    IN Spin(SetPageSched(s1), s1)

\* a page-write that takes its line pointer after advancing the page
OLED_cbk_writepage_IncFirst(s, args) ==
    IF s.oled.cur_page >= s.oled.num_pages
    THEN OLED_unlock(s)
    ELSE LET s1 == [s EXCEPT !.oled.cur_page = (@ + 1) % ByteMod]
             lineptr == Ptr("frame_buffer", s1.oled.cur_page * s1.oled.width)
         IN Spin(OLED_i2c_tx_shed(s1, s1.oled.i2c_addr, Ptr("dataprefix", 0), 1,
                                  lineptr, s1.oled.width,
                                  "OLED_cbk_setwritepage", "oled", TRUE), s1)

\* a page-write that ends the refresh one page early
OLED_cbk_writepage_OffByOne(s, args) ==
    IF s.oled.cur_page + 1 >= s.oled.num_pages
    THEN OLED_unlock(s)
    ELSE LET lineptr == Ptr("frame_buffer", s.oled.cur_page * s.oled.width)
             s1 == [s EXCEPT !.oled.cur_page = (@ + 1) % ByteMod]
         IN Spin(OLED_i2c_tx_shed(s1, s1.oled.i2c_addr, Ptr("dataprefix", 0), 1,
                                  lineptr, s1.oled.width,
                                  "OLED_cbk_setwritepage", "oled", TRUE), s1)

\* a page-write callback that ends the refresh without releasing the lock
OLED_cbk_writepage_NoUnlock(s, args) ==
    IF s.oled.cur_page >= s.oled.num_pages
    THEN s
    ELSE LET lineptr == Ptr("frame_buffer", s.oled.cur_page * s.oled.width)
             s1 == [s EXCEPT !.oled.cur_page = (@ + 1) % ByteMod]
         IN Spin(OLED_i2c_tx_shed(s1, s1.oled.i2c_addr, Ptr("dataprefix", 0), 1,
                                  lineptr, s1.oled.width,
                                  "OLED_cbk_setwritepage", "oled", TRUE), s1)

OLED_cbk_writepage(s, args) ==
    IF s.oled.cur_page >= s.oled.num_pages
    THEN OLED_unlock(s)
    ELSE LET lineptr == Ptr("frame_buffer", s.oled.cur_page * s.oled.width)
             s1 == [s EXCEPT !.oled.cur_page = (@ + 1) % ByteMod]
         IN Spin(OLED_i2c_tx_shed(s1, s1.oled.i2c_addr, Ptr("dataprefix", 0), 1,
                                  lineptr, s1.oled.width,
                                  "OLED_cbk_setwritepage", "oled", TRUE), s1)

\* the callbacks that continue the refresh pipeline
PipelineCallbacks == {"OLED_cbk_writepage", "OLED_cbk_setwritepage"}

\* (*i2c_callback)(i2c_callback_args)
Callback(s, cbk, args) ==
    CASE cbk = "OLED_cbk_empty" -> OLED_cbk_empty(s, args)
      [] cbk = "OLED_cbk_unlock" -> OLED_cbk_unlock(s, args)
      [] cbk = "OLED_cbk_writepage" -> OLED_cbk_writepage(s, args)
      [] cbk = "OLED_cbk_setwritepage" -> OLED_cbk_setwritepage(s, args)
      [] OTHER -> [s EXCEPT !.obs.hang = TRUE]

(***************************************************************************)
(* ISR(TWI_vect): one run of the handler.  g is the byte a read past the   *)
(* end of an array returns.                                                *)
(***************************************************************************)
Load(s, p, g) ==
    [s EXCEPT !.twi.TWDR = Deref(s, p, g),
              !.obs.sent = @ + 1,
              !.obs.wire = IF InBounds(s, p)
                           THEN Append(@, [b |-> s.mem[p.arr][p.off + 1], at |-> p])
                           ELSE @]

\* the handler calling the callback before it resets i2c_state
ISR_Stop_CallbackFirst(s) ==
    LET s1 == [s EXCEPT
                 !.twi.irq = FALSE,
                 !.obs.in_isr = TRUE,
                 !.obs.outstanding = @ - 1,
                 !.obs.last = [adm |-> s.obs.adm, wire |-> s.obs.wire,
                               sent |-> s.obs.sent,
                               cbk |-> s.i2c.callback, ctx |-> s.i2c.callback_args],
                 !.obs.rf.log = IF s.i2c.callback \in PipelineCallbacks
                                THEN Append(@, s.obs.wire) ELSE @]
        s2 == Callback(s1, s.i2c.callback, s.i2c.callback_args)
    IN [s2 EXCEPT !.i2c.state = I2C_STATE_IDLE, !.obs.in_isr = FALSE]

\* the handler without the reset of i2c_state
ISR_Stop_NoReset(s) ==
    LET s1 == [s EXCEPT
                 !.twi.irq = FALSE,
                 !.obs.in_isr = TRUE,
                 !.obs.outstanding = @ - 1,
                 !.obs.last = [adm |-> s.obs.adm, wire |-> s.obs.wire,
                               sent |-> s.obs.sent,
                               cbk |-> s.i2c.callback, ctx |-> s.i2c.callback_args]]
        s2 == Callback(s1, s.i2c.callback, s.i2c.callback_args)
    IN [s2 EXCEPT !.obs.in_isr = FALSE]

ISR_Stop(s) ==
    LET s1 == [s EXCEPT
                 !.twi.irq = FALSE,
                 !.i2c.state = I2C_STATE_IDLE,
                 !.obs.in_isr = TRUE,
                 !.obs.outstanding = @ - 1,
                 !.obs.last = [adm |-> s.obs.adm, wire |-> s.obs.wire,
                               sent |-> s.obs.sent,
                               cbk |-> s.i2c.callback, ctx |-> s.i2c.callback_args],
                 !.obs.rf.log = IF s.i2c.callback \in PipelineCallbacks
                                THEN Append(@, s.obs.wire) ELSE @]
        s2 == Callback(s1, s.i2c.callback, s.i2c.callback_args)
    IN [s2 EXCEPT !.obs.in_isr = FALSE]

\* the handler with || for && in the test for an empty transaction
ISR_SlaveAddr_Or(s) ==
    [s EXCEPT
       !.twi.TWDR = s.i2c.devaddr,
       !.obs.sent = @ + 1,
       !.obs.wire = Append(@, [b |-> s.i2c.devaddr, at |-> NULL]),
       !.i2c.state = IF s.i2c.prefix_ptr = NULL \/ s.i2c.data_ptr = NULL
                     THEN I2C_STATE_STOP
                     ELSE I2C_STATE_WRITEPREFIX]

ISR_SlaveAddr(s) ==
    [s EXCEPT
       !.twi.TWDR = s.i2c.devaddr,
       !.obs.sent = @ + 1,
       !.obs.wire = Append(@, [b |-> s.i2c.devaddr, at |-> NULL]),
       !.i2c.state = IF s.i2c.prefix_ptr = NULL /\ s.i2c.data_ptr = NULL
                     THEN I2C_STATE_STOP
                     ELSE IF s.i2c.prefix_ptr = NULL
                     THEN I2C_STATE_WRITEBYTE
                     ELSE I2C_STATE_WRITEPREFIX]

ISR_WritePrefix(s, g) ==
    LET s1 == Load(s, s.i2c.prefix_ptr, g)
        cnt == (s.i2c.prefix_count + PrefixCountMod - 1) % PrefixCountMod
    IN [s1 EXCEPT
          !.i2c.prefix_ptr = Ptr(@.arr, @.off + 1),
          !.i2c.prefix_count = cnt,
          !.i2c.state = IF cnt = 0
                        THEN (IF s.i2c.data_ptr = NULL
                              THEN I2C_STATE_STOP ELSE I2C_STATE_WRITEBYTE)
                        ELSE @]

ISR_WriteByte(s, g) ==
    LET s1 == Load(s, s.i2c.data_ptr, g)
        cnt == (s.i2c.data_count + DataCountMod - 1) % DataCountMod
    IN [s1 EXCEPT
          !.i2c.data_ptr = Ptr(@.arr, @.off + 1),
          !.i2c.data_count = cnt,
          !.i2c.state = IF cnt = 0 THEN I2C_STATE_STOP ELSE @]

ISR(s, g) ==
    CASE s.i2c.state \in {I2C_STATE_IDLE, I2C_STATE_STOP} -> ISR_Stop(s)
      [] s.i2c.state = I2C_STATE_SLAVEADDR -> ISR_SlaveAddr(s)
      [] s.i2c.state = I2C_STATE_WRITEPREFIX -> ISR_WritePrefix(s, g)
      [] s.i2c.state = I2C_STATE_WRITEBYTE -> ISR_WriteByte(s, g)

\* the pointer the next run of the handler reads through, if any
NextRead(s) ==
    CASE s.i2c.state = I2C_STATE_WRITEPREFIX -> s.i2c.prefix_ptr
      [] s.i2c.state = I2C_STATE_WRITEBYTE -> s.i2c.data_ptr
      [] OTHER -> NULL

\* the bytes that read can return
ReadOutcomes(s) ==
    IF NextRead(s) = NULL \/ InBounds(s, NextRead(s)) THEN {0} ELSE UserBytes

\* The peripheral raises its interrupt after the START condition and after
\* every byte it has been given; after a STOP condition it raises none.
Interrupt ==
    /\ twi.irq
    /\ ~obs.hang
    /\ \E g \in ReadOutcomes(St) : Become(ISR(St, g))
    /\ UNCHANGED fg

(***************************************************************************)
(* Initial values: the statics of oled.c as the C runtime zero- or         *)
(* initializer-fills them.                                                 *)
(***************************************************************************)
\* the device address the application passes (oled_test.c:15, 0b0111100)
AppAddr == 60
\* frame-buffer bytes per page and display height of the modelled panel
DisplayWidth == 2
DisplayHeight == 64
BitsPerPage == 8

Pages(h) == (h + BitsPerPage - 1) \div BitsPerPage

ZeroBuffer(w, h) == [k \in 1..(w * Pages(h)) |-> 0]

I2cInit ==
    [prefix_ptr |-> NULL, prefix_count |-> 0, data_ptr |-> NULL, data_count |-> 0,
     is_fastfail |-> FALSE, callback |-> "none", callback_args |-> "NULL",
     state |-> I2C_STATE_IDLE, devaddr |-> 0]

MemInit(w, h) ==
    [init |-> <<128, 141, 128, 20, 128, 175, 128, 129, 128, 255, 128, 167>>,
     setpage |-> <<128, 0, 128, 16, 128, 176>>,
     setbrightness |-> <<128, 129, 128, 255>>,
     dataprefix |-> <<64>>,
     frame_buffer |-> ZeroBuffer(w, h),
     userP |-> << >>,
     userD |-> << >>]

ObsInit ==
    [adm |-> NoAdm, outstanding |-> 0, wire |-> << >>, sent |-> 0,
     last |-> NoLast,
     in_isr |-> FALSE, hang |-> FALSE, stray |-> {},
     rf |-> [started |-> FALSE, log |-> << >>, snap |-> << >>, raced |-> FALSE]]

\* the handle as __OLED_init leaves it
OledInit(w, h, addr) ==
    [width |-> w, height |-> h, busy_lock |-> 1,
     i2c_addr |-> addr, cur_page |-> 0, num_pages |-> 8]

(***************************************************************************)
(* SpecBus: foreground code that calls the scheduler directly, with        *)
(* arrays of its own, while the interrupt handler runs transactions.       *)
(***************************************************************************)
CbChoices ==
    {<<"OLED_cbk_empty", "NULL">>, <<"OLED_cbk_empty", "oled">>,
     <<"OLED_cbk_unlock", "oled">>}

\* the contents of a caller's prefix / payload array of n bytes: distinct
\* values, so that order and origin of every byte on the bus can be told
PrefixBytes(n) == [k \in 1..n |-> 16 + k]
DataBytes(n) == [k \in 1..n |-> 32 + k]

\* what a caller may pass for one array: absent (NULL, length 0) or present
\* with n bytes.  Every caller in oled.c passes NULL or at least one byte;
\* allowEmpty adds the present array of length zero.
ArrayArgs(allowEmpty) ==
    {[null |-> TRUE, n |-> 0]}
      \cup {[null |-> FALSE, n |-> n] : n \in 1..MaxLen}
      \cup (IF allowEmpty THEN {[null |-> FALSE, n |-> 0]} ELSE {})

InitBus ==
    /\ i2c = I2cInit
    /\ twi = [TWDR |-> 0, irq |-> FALSE]
    /\ mem = MemInit(DisplayWidth, DisplayHeight)
    /\ oled = OledInit(DisplayWidth, DisplayHeight, AppAddr)
    /\ fg = [pc |-> "bus", called |-> FALSE, ret |-> FALSE, prev |-> FALSE,
             was |-> I2C_STATE_IDLE, kept |-> TRUE, inst |-> TRUE, pending |-> 0]
    /\ obs = ObsInit

\* One call of OLED_i2c_tx_shed from the foreground.  The caller fills its
\* arrays before the call unless they belong to a transaction whose callback
\* it is still waiting for.
TryBegin(addr, p, d, cb, ff) ==
    LET s0 == IF obs.outstanding = 0
              THEN [St EXCEPT !.mem.userP = PrefixBytes(p.n),
                              !.mem.userD = DataBytes(d.n)]
              ELSE St
        pp == IF p.null THEN NULL ELSE Ptr("userP", 0)
        dp == IF d.null THEN NULL ELSE Ptr("userD", 0)
        r == OLED_i2c_tx_shed(s0, addr, pp, p.n, dp, d.n, cb[1], cb[2], ff)
    IN /\ Become(r.st)
       /\ fg' = [fg EXCEPT !.called = TRUE, !.ret = r.ret, !.prev = fg.ret,
                            !.was = i2c.state,
                            !.kept = (r.st = s0),
                            !.inst = /\ r.st.i2c.state = I2C_STATE_SLAVEADDR
                                     /\ r.st.i2c.prefix_ptr = pp
                                     /\ r.st.i2c.prefix_count = p.n
                                     /\ r.st.i2c.data_ptr = dp
                                     /\ r.st.i2c.data_count = d.n
                                     /\ r.st.i2c.callback = cb[1]
                                     /\ r.st.i2c.callback_args = cb[2]
                                     /\ r.st.i2c.is_fastfail = ff
                                     /\ r.st.i2c.devaddr = 2 * addr
                                     /\ r.st.twi.irq,
                            !.pending = obs.outstanding]

BusCall ==
    /\ fg.pc = "bus"
    /\ ~obs.hang
    /\ \E addr \in Addrs, p \in ArrayArgs(FALSE), d \in ArrayArgs(FALSE),
          cb \in CbChoices :
          TryBegin(addr, p, d, cb, TRUE)

\* the caller takes the lock it will have the completion callback release
BusLock ==
    /\ fg.pc = "bus"
    /\ ~obs.hang
    /\ oled.busy_lock = 1
    /\ Become(OLED_trylock(St).st)
    /\ UNCHANGED fg

NextBus == BusCall \/ BusLock \/ Interrupt

SpecBus == InitBus /\ [][NextBus]_vars

\* the interrupt is raised by hardware: it is never withheld forever
SpecBusFair == SpecBus /\ WF_vars(Interrupt)

\* A caller that also passes present arrays of length zero, and that waits
\* for the completion callback before its next call.
BusCallAny ==
    /\ fg.pc = "bus"
    /\ ~obs.hang
    /\ obs.outstanding = 0
    /\ \E p \in ArrayArgs(TRUE), d \in ArrayArgs(TRUE) :
          TryBegin(AppAddr, p, d, <<"OLED_cbk_empty", "NULL">>, FALSE)

NextBusAny == BusCallAny \/ Interrupt

SpecBusAny == InitBus /\ [][NextBusAny]_vars

(***************************************************************************)
(* The rasterizer: error codes, draw parameters and the packed buffer.     *)
(***************************************************************************)
OLED_EOK == "OLED_EOK"
OLED_EBOUNDS == "OLED_EBOUNDS"
OLED_EPARAMS == "OLED_EPARAMS"
OLED_EBUSY == "OLED_EBUSY"

\* bit k of byte v, and v with that bit set or cleared
Bit(v, k) == (v \div (2 ^ k)) % 2
WithBit(v, k, on) == v - Bit(v, k) * (2 ^ k) + (IF on THEN 2 ^ k ELSE 0)

\* OLED_put_pixel_ of oled.h: the unchecked write of one pixel.  Byte
\* (y / 8) * width + x of the frame buffer holds the pixel in bit y % 8.  A
\* write outside the buffer lands in memory that is not the frame buffer.
PixelIndex(s, x, y) == (y \div BitsPerPage) * s.oled.width + x
PixelBit(y) == y % BitsPerPage

OLED_put_pixel_(s, x, y, pixel_state) ==
    LET idx == PixelIndex(s, x, y)
    IN IF idx + 1 \in 1..Len(s.mem.frame_buffer)
       THEN [s EXCEPT !.mem.frame_buffer[idx + 1] = WithBit(@, PixelBit(y), pixel_state)]
       ELSE [s EXCEPT !.obs.stray = @ \cup {idx}]

\* a put_pixel without its bounds test
OLED_put_pixel_Unchecked(s, x, y, pixel_state) ==
    [ret |-> OLED_EOK, st |-> OLED_put_pixel_(s, x, y, pixel_state)]

OLED_put_pixel(s, x, y, pixel_state) ==
    IF x >= s.oled.width \/ y >= s.oled.height
    THEN [ret |-> OLED_EBOUNDS, st |-> s]
    ELSE [ret |-> OLED_EOK, st |-> OLED_put_pixel_(s, x, y, pixel_state)]

\* draw parameters of oled.h: colour bit and fill bit
OLED_BLACK == 1
OLED_FILL == 2

\* OLED_put_pixel_ called for every point of pts with one colour,
\* coordinates passed as uint8_t.  Writes of one colour commute, so the
\* result is given bit by bit: a bit some point addresses takes the colour,
\* any other bit stays, and the indices outside the buffer are strays.
Paint(s, pts, color) ==
    LET hits == {<<PixelIndex(s, pts[k][1] % ByteMod, pts[k][2] % ByteMod),
                   PixelBit(pts[k][2] % ByteMod)>> : k \in DOMAIN pts}
        n == Len(s.mem.frame_buffer)
        NewBit(v, i, b) == IF <<i - 1, b>> \in hits
                           THEN (IF color THEN 1 ELSE 0)
                           ELSE Bit(v, b)
    IN [s EXCEPT !.mem.frame_buffer =
                     [i \in 1..n |->
                         NewBit(@[i], i, 0) + 2 * NewBit(@[i], i, 1)
                         + 4 * NewBit(@[i], i, 2) + 8 * NewBit(@[i], i, 3)
                         + 16 * NewBit(@[i], i, 4) + 32 * NewBit(@[i], i, 5)
                         + 64 * NewBit(@[i], i, 6) + 128 * NewBit(@[i], i, 7)],
                 !.obs.stray = @ \cup {h[1] : h \in {g \in hits : g[1] + 1 \notin 1..n}}]

\* oled.c:285-300 and 350-365: a coordinate limited to the display edge
Clamp(v, max) == IF v > max THEN max ELSE v
Over(v, max) == IF v > max THEN 1 ELSE 0

Min(a, b) == IF a < b THEN a ELSE b
Max(a, b) == IF a > b THEN a ELSE b

\* oled.c:316-320: for x, for y, in that order
FillOrder(start_x, start_y, stop_x, stop_y) ==
    LET ny == stop_y - start_y + 1
        nx == stop_x - start_x + 1
    IN [k \in 1..(nx * ny) |-> <<start_x + (k - 1) \div ny, start_y + ((k - 1) % ny)>>]

\* oled.c:323-330: top and bottom edge by x, then left and right edge by y
FrameOrder(start_x, start_y, stop_x, stop_y) ==
    LET ny == stop_y - start_y + 1
        nx == stop_x - start_x + 1
    IN [k \in 1..(2 * nx) |->
            <<start_x + (k - 1) \div 2, IF k % 2 = 1 THEN start_y ELSE stop_y>>]
       \o [k \in 1..(2 * ny) |->
            <<IF k % 2 = 1 THEN start_x ELSE stop_x, start_y + (k - 1) \div 2>>]

\* a rectangle whose outline leaves out the bottom and right edges
OLED_put_rectangle_HalfFrame(s, x_from, y_from, x_to, y_to, params) ==
    IF params > OLED_BLACK + OLED_FILL
    THEN [ret |-> OLED_EPARAMS, st |-> s]
    ELSE
    LET pixel_color == (params % 2) = 1
        is_fill == (params \div 2) % 2 = 1
        w_max == (s.oled.width + ByteMod - 1) % ByteMod
        h_max == (s.oled.height + ByteMod - 1) % ByteMod
        size_errors == Over(x_from, w_max) + Over(x_to, w_max)
                         + Over(y_from, h_max) + Over(y_to, h_max)
        xf == Clamp(x_from, w_max)
        xt == Clamp(x_to, w_max)
        yf == Clamp(y_from, h_max)
        yt == Clamp(y_to, h_max)
        start_x == Min(xt, xf)
        start_y == Min(yt, yf)
        stop_x == Max(xt, xf)
        stop_y == Max(yt, yf)
    IN IF size_errors >= 4
       THEN [ret |-> OLED_EBOUNDS, st |-> s]
       ELSE [ret |-> OLED_EOK,
             st |-> Paint(s, IF is_fill
                             THEN FillOrder(start_x, start_y, stop_x, stop_y)
                             ELSE FrameOrder(start_x, start_y, stop_x - 1, stop_y - 1), pixel_color)]

(***************************************************************************)
(* OLED_err OLED_put_rectangle(oled, x_from, y_from, x_to, y_to, params)   *)
(***************************************************************************)
OLED_put_rectangle(s, x_from, y_from, x_to, y_to, params) ==
    IF params > OLED_BLACK + OLED_FILL
    THEN [ret |-> OLED_EPARAMS, st |-> s]
    ELSE
    LET pixel_color == (params % 2) = 1
        is_fill == (params \div 2) % 2 = 1
        w_max == (s.oled.width + ByteMod - 1) % ByteMod
        h_max == (s.oled.height + ByteMod - 1) % ByteMod
        size_errors == Over(x_from, w_max) + Over(x_to, w_max)
                         + Over(y_from, h_max) + Over(y_to, h_max)
        xf == Clamp(x_from, w_max)
        xt == Clamp(x_to, w_max)
        yf == Clamp(y_from, h_max)
        yt == Clamp(y_to, h_max)
        start_x == Min(xt, xf)
        start_y == Min(yt, yf)
        stop_x == Max(xt, xf)
        stop_y == Max(yt, yf)
    IN IF size_errors >= 4
       THEN [ret |-> OLED_EBOUNDS, st |-> s]
       ELSE [ret |-> OLED_EOK,
             st |-> Paint(s, IF is_fill
                             THEN FillOrder(start_x, start_y, stop_x, stop_y)
                             ELSE FrameOrder(start_x, start_y, stop_x, stop_y), pixel_color)]

\* the function ran off its end without a return statement
NoReturn == "no return"

\* pixel of a staircase at counter i along the longer axis and counter j
\* along the shorter one; steep when the shorter axis is x, rising when y
\* runs from start_y towards smaller values
StairPoint(start_x, start_y, steep, rising, i, j) ==
    LET x == IF steep THEN j ELSE i
        y == IF steep THEN i ELSE j
    IN <<(start_x + x) % ByteMod,
         (IF rising THEN start_y + ByteMod - y ELSE start_y + y) % ByteMod>>

\* oled.c:473-478 and its three siblings: stairs of equal length
RECURSIVE EvenStairs(_, _, _, _, _, _, _, _)
EvenStairs(start_x, start_y, steep, rising, delta_big, line_lenght, i, j) ==
    IF i > delta_big THEN << >>
    ELSE LET j2 == IF i % line_lenght = 0 THEN (j + 1) % ByteMod ELSE j
         IN <<StairPoint(start_x, start_y, steep, rising, i, j2)>>
            \o EvenStairs(start_x, start_y, steep, rising, delta_big, line_lenght,
                          (i + 1) % ByteMod, j2)

\* oled.c:530-539 and its three siblings: stairs of two lengths
RECURSIVE UnevenStairs(_, _, _, _, _, _, _, _, _)
UnevenStairs(start_x, start_y, steep, rising, delta_big, line_lenght, long_line_pos, i, j) ==
    IF i >= delta_big THEN << >>
    ELSE LET j2 == IF i % line_lenght = 0 THEN (j + 1) % ByteMod ELSE j
             long == (j2 + 1) % long_line_pos = 0
             i2 == IF long THEN (i + 1) % ByteMod ELSE i
         IN (IF long THEN <<StairPoint(start_x, start_y, steep, rising, i, j2)>> ELSE << >>)
            \o <<StairPoint(start_x, start_y, steep, rising, i2, j2)>>
            \o UnevenStairs(start_x, start_y, steep, rising, delta_big, line_lenght,
                            long_line_pos, (i2 + 1) % ByteMod, j2)

\* oled.c:425-584: a line that is neither straight nor diagonal
PutInclined(s, start_x, start_y, stop_x, stop_y, pixel_color) ==
    LET sit1 == start_x < stop_x /\ start_y < stop_y
        sit4 == start_x < stop_x /\ start_y > stop_y
        dx == stop_x - start_x
        dy == IF sit4 THEN start_y - stop_y ELSE stop_y - start_y
        known == (sit1 \/ sit4) /\ dx # dy
        delta_big == IF known THEN Max(dx, dy) ELSE 0
        delta_small == IF known THEN Min(dx, dy) ELSE 0
    IN IF delta_small = 0 THEN [ret |-> NoReturn, st |-> s]
       ELSE
       LET line_lenght == delta_big \div delta_small
           steep == delta_small = dx
           long_line_pos == delta_small \div (delta_small - (delta_big % delta_small))
       IN IF ~(sit1 \/ sit4) THEN [ret |-> NoReturn, st |-> s]
          ELSE [ret |-> OLED_EOK,
                st |-> Paint(s,
                             IF delta_big % delta_small = 0
                             THEN EvenStairs(start_x, start_y, steep, sit4,
                                             delta_big, line_lenght, 0, 0)
                             ELSE UnevenStairs(start_x, start_y, steep, sit4, delta_big,
                                               line_lenght, long_line_pos, 0, 0), pixel_color)]

\* a line whose falling diagonal stops one pixel short
PutLine_ShortDiagonal(s, x_from, y_from, x_to, y_to, pixel_color) ==
    LET swap == (x_from >= x_to /\ y_from >= y_to) \/ (x_from > x_to /\ y_from < y_to)
        start_x == IF swap THEN x_to ELSE x_from
        start_y == IF swap THEN y_to ELSE y_from
        stop_x == IF swap THEN x_from ELSE x_to
        stop_y == IF swap THEN y_from ELSE y_to
    IN IF start_y = stop_y
       THEN [ret |-> OLED_EOK,
             st |-> Paint(s, [k \in 1..(stop_x - start_x + 1) |-> <<start_x + k - 1, start_y>>], pixel_color)]
       ELSE IF start_x = stop_x
       THEN [ret |-> OLED_EOK,
             st |-> Paint(s, [k \in 1..(stop_y - start_y + 1) |-> <<start_x, start_y + k - 1>>], pixel_color)]
       ELSE IF stop_x - start_x = start_y - stop_y /\ start_x < stop_x /\ start_y > stop_y
       THEN [ret |-> OLED_EOK,
             st |-> Paint(s, [k \in 1..(stop_x - start_x + 1) |->
                                  <<start_x + k - 1, start_y - (k - 1)>>], pixel_color)]
       ELSE IF stop_x - start_x = stop_y - start_y
       THEN [ret |-> OLED_EOK,
             st |-> Paint(s, [k \in 1..(stop_y - start_y) |->
                                  <<start_x + k - 1, start_y + k - 1>>], pixel_color)]
       ELSE PutInclined(s, start_x, start_y, stop_x, stop_y, pixel_color)

\* a line that keeps the order of its endpoints when their x are equal
PutLine_StrictSwap(s, x_from, y_from, x_to, y_to, pixel_color) ==
    LET swap == (x_from > x_to /\ y_from >= y_to) \/ (x_from > x_to /\ y_from < y_to)
        start_x == IF swap THEN x_to ELSE x_from
        start_y == IF swap THEN y_to ELSE y_from
        stop_x == IF swap THEN x_from ELSE x_to
        stop_y == IF swap THEN y_from ELSE y_to
    IN IF start_y = stop_y
       THEN [ret |-> OLED_EOK,
             st |-> Paint(s, [k \in 1..(stop_x - start_x + 1) |-> <<start_x + k - 1, start_y>>], pixel_color)]
       ELSE IF start_x = stop_x
       THEN [ret |-> OLED_EOK,
             st |-> Paint(s, [k \in 1..(stop_y - start_y + 1) |-> <<start_x, start_y + k - 1>>], pixel_color)]
       ELSE IF stop_x - start_x = start_y - stop_y /\ start_x < stop_x /\ start_y > stop_y
       THEN [ret |-> OLED_EOK,
             st |-> Paint(s, [k \in 1..(stop_x - start_x + 1) |->
                                  <<start_x + k - 1, start_y - (k - 1)>>], pixel_color)]
       ELSE IF stop_x - start_x = stop_y - start_y
       THEN [ret |-> OLED_EOK,
             st |-> Paint(s, [k \in 1..(stop_y - start_y + 1) |->
                                  <<start_x + k - 1, start_y + k - 1>>], pixel_color)]
       ELSE PutInclined(s, start_x, start_y, stop_x, stop_y, pixel_color)

\* oled.c:380-584: the line between two points inside the display
PutLine(s, x_from, y_from, x_to, y_to, pixel_color) ==
    LET swap == (x_from >= x_to /\ y_from >= y_to) \/ (x_from > x_to /\ y_from < y_to)
        start_x == IF swap THEN x_to ELSE x_from
        start_y == IF swap THEN y_to ELSE y_from
        stop_x == IF swap THEN x_from ELSE x_to
        stop_y == IF swap THEN y_from ELSE y_to
    IN IF start_y = stop_y
       THEN [ret |-> OLED_EOK,
             st |-> Paint(s, [k \in 1..(stop_x - start_x + 1) |-> <<start_x + k - 1, start_y>>], pixel_color)]
       ELSE IF start_x = stop_x
       THEN [ret |-> OLED_EOK,
             st |-> Paint(s, [k \in 1..(stop_y - start_y + 1) |-> <<start_x, start_y + k - 1>>], pixel_color)]
       ELSE IF stop_x - start_x = start_y - stop_y /\ start_x < stop_x /\ start_y > stop_y
       THEN [ret |-> OLED_EOK,
             st |-> Paint(s, [k \in 1..(stop_x - start_x + 1) |->
                                  <<start_x + k - 1, start_y - (k - 1)>>], pixel_color)]
       ELSE IF stop_x - start_x = stop_y - start_y
       THEN [ret |-> OLED_EOK,
             st |-> Paint(s, [k \in 1..(stop_y - start_y + 1) |->
                                  <<start_x + k - 1, start_y + k - 1>>], pixel_color)]
       ELSE PutInclined(s, start_x, start_y, stop_x, stop_y, pixel_color)

\* a line that counts limited coordinates of both axes together
OLED_put_line_SumErrors(s, x_from, y_from, x_to, y_to, params) ==
    IF params > OLED_BLACK + OLED_FILL
    THEN [ret |-> OLED_EPARAMS, st |-> s]
    ELSE
    LET pixel_color == (params % 2) = 1
        w_max == (s.oled.width + ByteMod - 1) % ByteMod
        h_max == (s.oled.height + ByteMod - 1) % ByteMod
        size_errors_x == Over(x_from, w_max) + Over(x_to, w_max)
        size_errors_y == Over(y_from, h_max) + Over(y_to, h_max)
    IN IF size_errors_x + size_errors_y >= 2
       THEN [ret |-> OLED_EBOUNDS, st |-> s]
       ELSE PutLine(s, Clamp(x_from, w_max), Clamp(y_from, h_max),
                    Clamp(x_to, w_max), Clamp(y_to, h_max), pixel_color)

(***************************************************************************)
(* OLED_err OLED_put_line(oled, x_from, y_from, x_to, y_to, params)        *)
(***************************************************************************)
OLED_put_line(s, x_from, y_from, x_to, y_to, params) ==
    IF params > OLED_BLACK + OLED_FILL
    THEN [ret |-> OLED_EPARAMS, st |-> s]
    ELSE
    LET pixel_color == (params % 2) = 1
        w_max == (s.oled.width + ByteMod - 1) % ByteMod
        h_max == (s.oled.height + ByteMod - 1) % ByteMod
        size_errors_x == Over(x_from, w_max) + Over(x_to, w_max)
        size_errors_y == Over(y_from, h_max) + Over(y_to, h_max)
    IN IF size_errors_x >= 2 \/ size_errors_y >= 2
       THEN [ret |-> OLED_EBOUNDS, st |-> s]
       ELSE PutLine(s, Clamp(x_from, w_max), Clamp(y_from, h_max),
                    Clamp(x_to, w_max), Clamp(y_to, h_max), pixel_color)

(***************************************************************************)
(* SpecDriver: an application that initializes the display and then calls  *)
(* refresh, set-brightness, the lock and put_pixel in any order, while the *)
(* interrupt handler runs the transactions.  A foreground call that spins  *)
(* is one attempt per step, so the handler can run between attempts.       *)
(***************************************************************************)
SetBrightnessLen == 4
InitCmdLen == 12

\* __OLED_init: the handle filled in, I2C_init, the init command scheduled
OLED_init(s, width, height, addr) ==
    LET s1 == [s EXCEPT !.oled = OledInit(width, height, addr),
                        !.mem.frame_buffer = ZeroBuffer(width, height),
                        !.i2c.state = I2C_STATE_IDLE]
        r == OLED_i2c_tx_shed(s1, addr, Ptr("init", 0), InitCmdLen, NULL, 0,
                              "OLED_cbk_empty", "NULL", TRUE)
    IN [ret |-> IF r.ret THEN OLED_EOK ELSE OLED_EBUSY, st |-> r.st]

\* oled.c:219: the level patched into the brightness command
SetBrightnessCmd(s, level) ==
    [s EXCEPT !.mem["setbrightness"][SetBrightnessLen] = level]

\* oled.c:221-223: one attempt to schedule the brightness command
SetBrightnessSched(s) ==
    OLED_i2c_tx_shed(s, s.oled.i2c_addr, Ptr("setbrightness", 0), SetBrightnessLen,
                     NULL, 0, "OLED_cbk_unlock", "oled", TRUE)

\* oled.c:233: the page counter reset under the lock
RefreshReset(s) == [s EXCEPT !.oled.cur_page = 0]

\* page-writes among the pipeline transactions completed so far: they
\* alternate with the set-cursor commands, which come first
PageWritesDone == Len(obs.rf.log) \div 2

\* from the refresh's acquisition of the lock to the completion of its last
\* page-write
InRefreshWindow == obs.rf.started /\ PageWritesDone < oled.num_pages

Levels == {0, 255}
AppPixels == {<<0, 0>>, <<1, 63>>}

InitDriver ==
    /\ i2c = I2cInit
    /\ twi = [TWDR |-> 0, irq |-> FALSE]
    /\ mem = MemInit(0, 0)
    /\ oled = [width |-> 0, height |-> 0, busy_lock |-> 0,
               i2c_addr |-> 0, cur_page |-> 0, num_pages |-> 0]
    /\ fg = [pc |-> "start", holds |-> FALSE, ret |-> OLED_EOK]
    /\ obs = ObsInit

AppInit ==
    /\ fg.pc = "start"
    /\ LET r == OLED_init(St, DisplayWidth, DisplayHeight, AppAddr)
       IN /\ Become(r.st)
          /\ fg' = [fg EXCEPT !.pc = "app", !.ret = r.ret]

Running == fg.pc # "start" /\ ~obs.hang

\* OLED_refresh
RefreshCall ==
    /\ Running /\ fg.pc = "app" /\ ~fg.holds
    /\ fg' = [fg EXCEPT !.pc = "refresh_lock"]
    /\ UNCHANGED <<i2c, twi, mem, oled, obs>>

RefreshLock ==
    /\ Running /\ fg.pc = "refresh_lock"
    /\ LET r == OLED_trylock(St)
       IN IF r.ret
          THEN /\ Become([r.st EXCEPT !.obs.rf = [started |-> TRUE, log |-> << >>,
                                                   snap |-> mem.frame_buffer,
                                                   raced |-> FALSE]])
               /\ fg' = [fg EXCEPT !.pc = "refresh_reset"]
          ELSE /\ Become(r.st)
               /\ UNCHANGED fg

RefreshPage0 ==
    /\ Running /\ fg.pc = "refresh_reset"
    /\ Become(RefreshReset(St))
    /\ fg' = [fg EXCEPT !.pc = "refresh_cmd"]

RefreshCmd ==
    /\ Running /\ fg.pc = "refresh_cmd"
    /\ Become(SetPageCmd(St))
    /\ fg' = [fg EXCEPT !.pc = "refresh_sched"]

RefreshSched ==
    /\ Running /\ fg.pc = "refresh_sched"
    /\ LET r == SetPageSched(St)
       IN /\ Become(r.st)
          /\ fg' = [fg EXCEPT !.pc = IF r.ret THEN "app" ELSE @]

\* OLED_cmd_setbrightness
BrightnessCall ==
    /\ Running /\ fg.pc = "app" /\ ~fg.holds
    /\ \E level \in Levels : Become(SetBrightnessCmd(St, level))
    /\ fg' = [fg EXCEPT !.pc = "bright_lock"]

BrightnessLock ==
    /\ Running /\ fg.pc = "bright_lock"
    /\ LET r == OLED_trylock(St)
       IN /\ Become(r.st)
          /\ fg' = [fg EXCEPT !.pc = IF r.ret THEN "bright_sched" ELSE @]

BrightnessSched ==
    /\ Running /\ fg.pc = "bright_sched"
    /\ LET r == SetBrightnessSched(St)
       IN /\ Become(r.st)
          /\ fg' = [fg EXCEPT !.pc = IF r.ret THEN "app" ELSE @]

\* OLED_WITH_SPINLOCK: the block entered ...
AppLockCall ==
    /\ Running /\ fg.pc = "app" /\ ~fg.holds
    /\ fg' = [fg EXCEPT !.pc = "app_lock"]
    /\ UNCHANGED <<i2c, twi, mem, oled, obs>>

AppLock ==
    /\ Running /\ fg.pc = "app_lock"
    /\ LET r == OLED_trylock(St)
       IN /\ Become(r.st)
          /\ fg' = [fg EXCEPT !.pc = IF r.ret THEN "app" ELSE @,
                               !.holds = r.ret]

\* ... and left
AppUnlock ==
    /\ Running /\ fg.pc = "app" /\ fg.holds
    /\ Become(OLED_unlock(St))
    /\ fg' = [fg EXCEPT !.holds = FALSE]

\* the application draws, inside a locked block or outside one
AppDraw ==
    /\ Running /\ fg.pc = "app"
    /\ \E px \in AppPixels, on \in BOOLEAN :
          LET r == OLED_put_pixel(St, px[1], px[2], on)
          IN /\ Become([r.st EXCEPT !.obs.rf.raced = @ \/ (InRefreshWindow /\ ~fg.holds)])
             /\ fg' = [fg EXCEPT !.ret = r.ret]

NextDriver ==
    \/ AppInit
    \/ RefreshCall \/ RefreshLock \/ RefreshPage0 \/ RefreshCmd \/ RefreshSched
    \/ BrightnessCall \/ BrightnessLock \/ BrightnessSched
    \/ AppLockCall \/ AppLock \/ AppUnlock
    \/ AppDraw
    \/ Interrupt

SpecDriver == InitDriver /\ [][NextDriver]_vars

(***************************************************************************)
(* Properties of the scheduler and the transmit FSM.                       *)
(***************************************************************************)
Bytes(w) == [k \in 1..Len(w) |-> w[k].b]

\* the byte stream a descriptor stands for: address byte, prefix, payload
Expected(a) ==
    <<(2 * a.addr) % ByteMod>>
        \o SubSeq(a.pre, 1, a.prefix_len) \o SubSeq(a.dat, 1, a.bytes_len)

Completed == obs.last.cbk # "none"

\* C1: a call of the scheduler returns true exactly when the FSM was IDLE at
\* the call; an admitted call leaves the descriptor installed and the FSM in
\* SLAVEADDR in the same step; a rejected call changes nothing; a call made
\* while an admitted transaction awaits its callback is rejected, and a call
\* made after the callback (nothing admitted since) is admitted.
C1_AdmitIffIdle ==
    fg.called =>
        /\ fg.ret <=> (fg.was = I2C_STATE_IDLE)
        /\ fg.ret => fg.inst
        /\ ~fg.ret => fg.kept
        /\ fg.pending = 1 => ~fg.ret
        /\ fg.pending = 0 => fg.ret

\* a call rejected in mid-payload, directly after an admitted one
C1_Witness ==
    /\ fg.called /\ ~fg.ret /\ fg.prev
    /\ fg.was = I2C_STATE_WRITEBYTE

\* C2: every admitted transaction puts on the bus exactly the address byte,
\* its P prefix bytes and its N payload bytes, in order, then stops; never
\* more than 1 + P + N bytes, and neither remaining count passes below zero.
C2_ExactStream ==
    /\ obs.sent <= 1 + obs.adm.prefix_len + obs.adm.bytes_len
    /\ i2c.prefix_count <= obs.adm.prefix_len
    /\ i2c.data_count <= obs.adm.bytes_len
    /\ Completed =>
          /\ Bytes(obs.last.wire) = Expected(obs.last.adm)
          /\ obs.last.sent = 1 + obs.last.adm.prefix_len + obs.last.adm.bytes_len

\* C3: an admitted transaction always completes: the FSM is back in IDLE and
\* its callback has been called.
C3_RunsToCompletion ==
    (obs.outstanding = 1) ~> (i2c.state = I2C_STATE_IDLE /\ Completed)

\* a transaction with the longest prefix and payload has completed
C3_Witness ==
    /\ Completed /\ i2c.state = I2C_STATE_IDLE
    /\ obs.last.adm.prefix_len = MaxLen /\ obs.last.adm.bytes_len = MaxLen
    /\ obs.last.sent = 1 + MaxLen + MaxLen

\* the bus has carried, first of all, the address byte of descriptor a, then
\* its prefix bytes and then its payload bytes, each read from its place in
\* the caller's array, in order
AllTransmitted(w, a) ==
    /\ Len(w) >= 1 + a.prefix_len + a.bytes_len
    /\ w[1].b = (2 * a.addr) % ByteMod
    /\ \A j \in 1..a.prefix_len : w[1 + j].at = Ptr(a.prefix.arr, a.prefix.off + j - 1)
    /\ \A j \in 1..a.bytes_len :
          w[1 + a.prefix_len + j].at = Ptr(a.bytes.arr, a.bytes.off + j - 1)

\* C4: callbacks and admissions pair up one to one (never a callback without
\* an admitted transaction, never a second one); the callback called is the
\* one stored at admission, with the stored context, and only after the
\* address byte and all prefix and payload bytes have been transmitted; and
\* while the transaction is in flight the installed callback, context,
\* address and byte sequences are the ones installed at admission.
C4_CallbackOncePerAdmission ==
    /\ obs.outstanding \in {0, 1}
    /\ (obs.outstanding = 1) <=> (i2c.state # I2C_STATE_IDLE)
    /\ Completed =>
          /\ obs.outstanding = 0
          /\ obs.last.cbk = obs.last.adm.cbk
          /\ obs.last.ctx = obs.last.adm.args
          /\ AllTransmitted(obs.last.wire, obs.last.adm)
          /\ obs.last.sent >= 1 + obs.last.adm.prefix_len + obs.last.adm.bytes_len
    /\ obs.outstanding = 1 =>
          /\ i2c.callback = obs.adm.cbk
          /\ i2c.callback_args = obs.adm.args
          /\ i2c.devaddr = (2 * obs.adm.addr) % ByteMod
          /\ i2c.prefix_ptr.arr = obs.adm.prefix.arr
          /\ i2c.data_ptr.arr = obs.adm.bytes.arr

\* the unlock callback has run with the handle as its context, after a
\* call was rejected while its transaction was in flight
C4_Witness ==
    /\ Completed
    /\ obs.last.cbk = "OLED_cbk_unlock" /\ obs.last.ctx = "oled"
    /\ obs.last.sent = 1 + MaxLen + MaxLen
    /\ fg.called /\ ~fg.ret

(***************************************************************************)
(* Properties of the refresh pipeline and the lock.                        *)
(***************************************************************************)
AddrByte == (2 * oled.i2c_addr) % ByteMod

\* the set-cursor command for page p: column 0 (low and high nibble), page p
IsSetCursor(w, p) ==
    Bytes(w) = <<AddrByte, 128, 0, 128, 16, 128, PageSelectBase + p>>

\* a command transaction: prefix only, nothing read from the frame buffer
IsCommand(w) == \A j \in 1..Len(w) : w[j].at.arr # "frame_buffer"

\* the page-write of page p: the pixel-data prefix, then the width bytes of
\* the frame buffer from index p * width on
IsPageWrite(w, p) ==
    /\ Len(w) = 2 + oled.width
    /\ w[1].b = AddrByte
    /\ w[2] = [b |-> 64, at |-> Ptr("dataprefix", 0)]
    /\ \A j \in 1..oled.width :
          w[2 + j].at = Ptr("frame_buffer", p * oled.width + j - 1)

PipelineEntered == fg.pc \in {"refresh_reset", "refresh_cmd", "refresh_sched"}

\* C5: the transactions of one refresh alternate set-cursor and page-write;
\* the p-th page-write carries the data prefix and the width bytes from index
\* p * width, right after the set-cursor of column 0, page p; pages come in
\* the order 0, 1, ...; there are never more than num_pages page-writes and,
\* once the pipeline has stopped, exactly num_pages; transactions never
\* overlap.
C5_PagesInOrder ==
    /\ obs.outstanding <= 1
    /\ Len(obs.rf.log) <= 2 * oled.num_pages + 1
    /\ \A k \in 1..Len(obs.rf.log) :
          LET p == (k - 1) \div 2
          IN IF k % 2 = 1
             THEN /\ IsCommand(obs.rf.log[k])
                  /\ p < oled.num_pages => IsSetCursor(obs.rf.log[k], p)
             ELSE IsPageWrite(obs.rf.log[k], p)
    /\ (obs.rf.started /\ i2c.state = I2C_STATE_IDLE /\ ~PipelineEntered)
          => PageWritesDone = oled.num_pages

\* a refresh has run to its end: all pages written, the lock free again
C5_Witness ==
    /\ obs.rf.started /\ i2c.state = I2C_STATE_IDLE /\ ~PipelineEntered
    /\ PageWritesDone = 8
    /\ oled.busy_lock = 1

\* C6: from the refresh's acquisition of the lock until its last page-write
\* has completed the lock is locked and the application does not hold it.
C6_LockHeldThroughRefresh ==
    InRefreshWindow => (oled.busy_lock = 0 /\ ~fg.holds)

\* the application spins on the lock while the last page is on the bus
C6_Witness ==
    /\ InRefreshWindow
    /\ PageWritesDone = oled.num_pages - 1
    /\ i2c.state = I2C_STATE_WRITEBYTE
    /\ fg.pc = "app_lock"

\* C7: unless the application wrote the frame buffer without holding the
\* lock, the buffer does not change from the refresh's acquisition of the
\* lock to the completion of its last page-write, and every payload byte
\* sent is the byte the buffer held at that acquisition.
C7_NoTornFrame ==
    ~obs.rf.raced =>
        /\ InRefreshWindow => mem.frame_buffer = obs.rf.snap
        /\ \A k \in 1..Len(obs.rf.log) : \A j \in 1..Len(obs.rf.log[k]) :
              LET e == obs.rf.log[k][j]
              IN e.at.arr = "frame_buffer" => e.b = obs.rf.snap[e.at.off + 1]

\* a whole frame drawn under the lock has been sent
C7_Witness ==
    /\ obs.rf.started /\ ~obs.rf.raced
    /\ Len(obs.rf.log) >= 2
    /\ PageWritesDone = oled.num_pages
    /\ obs.rf.snap[1] = 1
    /\ obs.rf.log[2][3].b = 1
    /\ mem.frame_buffer # obs.rf.snap

(***************************************************************************)
(* SpecRaster: one drawing call on an initialised display whose bus is     *)
(* idle, from a blank and from a fully lit frame buffer.                   *)
(***************************************************************************)
RasterWidth == 5
RasterHeight == 9

\* coordinates inside the display, the first one outside, and the largest
Xs == (0..RasterWidth) \cup {ByteMod - 1}
Ys == (0..RasterHeight) \cup {ByteMod - 1}

\* the four defined colour/fill combinations and two undefined values
Params == 0..5

Backgrounds == {0, ByteMod - 1}

ErrCodes == {OLED_EOK, OLED_EBOUNDS, OLED_EPARAMS, OLED_EBUSY}

InitRaster ==
    /\ i2c = I2cInit
    /\ twi = [TWDR |-> 0, irq |-> FALSE]
    /\ \E b \in Backgrounds :
           mem = [MemInit(RasterWidth, RasterHeight) EXCEPT
                     !.frame_buffer = [k \in 1..(RasterWidth * Pages(RasterHeight)) |-> b]]
    /\ oled = OledInit(RasterWidth, RasterHeight, AppAddr)
    /\ fg = [pc |-> "ready", op |-> "none", args |-> << >>, ret |-> OLED_EOK,
             fell |-> FALSE, before |-> << >>]
    /\ obs = ObsInit

\* the call returns r; a call that ran off the end of its function returns
\* whatever the return register holds
Returned(op, args, r) ==
    \E code \in (IF r.ret = NoReturn THEN ErrCodes ELSE {r.ret}) :
        /\ Become(r.st)
        /\ fg' = [pc |-> "done", op |-> op, args |-> args, ret |-> code,
                  fell |-> (r.ret = NoReturn), before |-> mem.frame_buffer]

DrawPixel ==
    /\ fg.pc = "ready"
    /\ \E x \in Xs, y \in Ys, on \in BOOLEAN :
           Returned("put_pixel", <<x, y, on>>, OLED_put_pixel(St, x, y, on))

DrawRectangle ==
    /\ fg.pc = "ready"
    /\ \E x_from \in Xs, y_from \in Ys, x_to \in Xs, y_to \in Ys, params \in Params :
           Returned("put_rectangle", <<x_from, y_from, x_to, y_to, params>>,
                    OLED_put_rectangle(St, x_from, y_from, x_to, y_to, params))

DrawLine ==
    /\ fg.pc = "ready"
    /\ \E x_from \in Xs, y_from \in Ys, x_to \in Xs, y_to \in Ys, params \in Params :
           Returned("put_line", <<x_from, y_from, x_to, y_to, params>>,
                    OLED_put_line(St, x_from, y_from, x_to, y_to, params))

NextRaster == DrawPixel \/ DrawRectangle \/ DrawLine

SpecRaster == InitRaster /\ [][NextRaster]_vars

(***************************************************************************)
(* Properties of the drawing calls, under SpecRaster                       *)
(***************************************************************************)
Drawn(op) == fg.pc = "done" /\ fg.op = op

\* pixel (x, y) of a frame buffer of the display, as 0 or 1
Pixel(fb, x, y) == Bit(fb[(y \div BitsPerPage) * oled.width + x + 1], y % BitsPerPage)

\* every bit of the frame buffer, named by its byte and its position
BufferBits == {<<i, b>> : i \in 1..Len(mem.frame_buffer), b \in 0..(BitsPerPage - 1)}

\* the coordinates of the pixel held in bit b of byte i
BitX(i) == (i - 1) % oled.width
BitY(i, b) == ((i - 1) \div oled.width) * BitsPerPage + b

\* the bits of the frame buffer that the call changed
ChangedBits == {q \in BufferBits : Bit(mem.frame_buffer[q[1]], q[2]) # Bit(fg.before[q[1]], q[2])}

Untouched ==
    /\ i2c = I2cInit
    /\ oled = OledInit(RasterWidth, RasterHeight, AppAddr)
    /\ obs.stray = {}

\* C8: put_pixel inside the display returns OK, gives bit y % 8 of byte
\* (y / 8) * width + x the requested value and changes no other bit; outside
\* the display it returns OutOfBounds and changes nothing; the lock and the
\* bus state machine are left alone either way.
C8_PutPixel ==
    Drawn("put_pixel") =>
        LET x == fg.args[1]
            y == fg.args[2]
            on == IF fg.args[3] THEN 1 ELSE 0
        IN /\ Untouched
           /\ IF x < oled.width /\ y < oled.height
              THEN /\ fg.ret = OLED_EOK
                   /\ \A q \in BufferBits :
                          Bit(mem.frame_buffer[q[1]], q[2]) =
                              IF q[1] = (y \div 8) * oled.width + x + 1 /\ q[2] = y % 8
                              THEN on
                              ELSE Bit(fg.before[q[1]], q[2])
              ELSE /\ fg.ret = OLED_EBOUNDS
                   /\ mem.frame_buffer = fg.before

\* a pixel of the second page was written and changed the buffer
C8_Witness ==
    /\ Drawn("put_pixel")
    /\ fg.ret = OLED_EOK
    /\ fg.args[2] >= BitsPerPage
    /\ Cardinality(ChangedBits) = 1

\* the box of a rectangle call: its corners limited to the display and
\* ordered per axis
BoxLeft == Min(Clamp(fg.args[1], oled.width - 1), Clamp(fg.args[3], oled.width - 1))
BoxRight == Max(Clamp(fg.args[1], oled.width - 1), Clamp(fg.args[3], oled.width - 1))
BoxTop == Min(Clamp(fg.args[2], oled.height - 1), Clamp(fg.args[4], oled.height - 1))
BoxBottom == Max(Clamp(fg.args[2], oled.height - 1), Clamp(fg.args[4], oled.height - 1))

InBox(x, y) == x \in BoxLeft..BoxRight /\ y \in BoxTop..BoxBottom
OnBorder(x, y) == InBox(x, y) /\ (x \in {BoxLeft, BoxRight} \/ y \in {BoxTop, BoxBottom})

\* C9: a put_rectangle that returns OK writes, with fill, exactly the
\* (stop_x-start_x+1) * (stop_y-start_y+1) pixels of the clamped, per-axis
\* ordered box, and with outline exactly the pixels of its four edges, in
\* the selected colour; every other pixel keeps its value.
C9_RectanglePixels ==
    (Drawn("put_rectangle") /\ fg.ret = OLED_EOK) =>
        LET color == fg.args[5] % 2
            fill == (fg.args[5] \div 2) % 2 = 1
            Target(x, y) == IF fill THEN InBox(x, y) ELSE OnBorder(x, y)
        IN /\ Untouched
           /\ \A q \in BufferBits :
                  Bit(mem.frame_buffer[q[1]], q[2]) =
                      IF Target(BitX(q[1]), BitY(q[1], q[2]))
                      THEN color
                      ELSE Bit(fg.before[q[1]], q[2])
           /\ (fill /\ fg.before[1] # color * (ByteMod - 1)) =>
                  Cardinality(ChangedBits) =
                      (BoxRight - BoxLeft + 1) * (BoxBottom - BoxTop + 1)

\* an outline with an untouched interior, its corners given bottom-right
\* first and one of them outside the display
C9_Witness ==
    /\ Drawn("put_rectangle")
    /\ fg.ret = OLED_EOK
    /\ fg.args[5] = OLED_BLACK
    /\ fg.args[1] > fg.args[3] /\ fg.args[2] > fg.args[4]
    /\ fg.args[1] >= oled.width
    /\ BoxRight - BoxLeft >= 2 /\ BoxBottom - BoxTop >= 2
    /\ Pixel(mem.frame_buffer, BoxLeft, BoxTop) = 1
    /\ Pixel(mem.frame_buffer, BoxLeft + 1, BoxTop + 1) = 0
    /\ Pixel(mem.frame_buffer, BoxRight, BoxBottom) = 1

\* the outcome the interface promises for a rectangle or line call
Outside(v, size) == v >= size

ExpectedOutcome ==
    LET ox1 == Outside(fg.args[1], oled.width)
        oy1 == Outside(fg.args[2], oled.height)
        ox2 == Outside(fg.args[3], oled.width)
        oy2 == Outside(fg.args[4], oled.height)
    IN IF fg.args[5] \notin {0, OLED_BLACK, OLED_FILL, OLED_BLACK + OLED_FILL}
       THEN OLED_EPARAMS
       ELSE IF fg.op = "put_rectangle" /\ ox1 /\ oy1 /\ ox2 /\ oy2
       THEN OLED_EBOUNDS
       ELSE IF fg.op = "put_line" /\ ((ox1 /\ ox2) \/ (oy1 /\ oy2))
       THEN OLED_EBOUNDS
       ELSE OLED_EOK

\* C10: put_rectangle and put_line leave the frame buffer as it was
\* whenever they return an error; they return InvalidParams exactly for an
\* undefined params value, whatever the coordinates; OutOfBounds exactly
\* when (rectangle) all four coordinates or (line) both coordinates of one
\* axis lie outside the display; and OK in every other case.
C10_ErrorOutcomes ==
    (Drawn("put_rectangle") \/ Drawn("put_line")) =>
        /\ fg.ret = ExpectedOutcome
        /\ ~fg.fell
        /\ fg.ret # OLED_EOK => (mem.frame_buffer = fg.before /\ Untouched)

\* a line refused because both x coordinates are outside, its y coordinates
\* being inside, on a buffer that a drawn line would have changed
C10_Witness ==
    /\ Drawn("put_line")
    /\ fg.ret = OLED_EBOUNDS
    /\ fg.args[1] >= oled.width /\ fg.args[3] >= oled.width
    /\ fg.args[2] < oled.height /\ fg.args[4] < oled.height
    /\ fg.args[5] = OLED_BLACK
    /\ fg.before[1] = 0

\* both coordinates of one axis lie outside the display: no pixel of the
\* requested rectangle, or of the requested segment, is inside it
EntirelyOutside ==
    \/ (Outside(fg.args[1], oled.width) /\ Outside(fg.args[3], oled.width))
    \/ (Outside(fg.args[2], oled.height) /\ Outside(fg.args[4], oled.height))

\* C11: a rectangle or line requested entirely outside the display is
\* refused with OutOfBounds and draws nothing, never a shape limited to the
\* display edge; a shape only partly outside is limited to the edge and
\* drawn.
C11_TotalOutsideIsError ==
    ((Drawn("put_rectangle") \/ Drawn("put_line")) /\ fg.ret # OLED_EPARAMS) =>
        IF EntirelyOutside
        THEN fg.ret = OLED_EBOUNDS /\ mem.frame_buffer = fg.before
        ELSE fg.ret = OLED_EOK

\* the requested endpoints of a line call lie inside the display
EndpointsInside ==
    /\ fg.args[1] < oled.width /\ fg.args[3] < oled.width
    /\ fg.args[2] < oled.height /\ fg.args[4] < oled.height

Between(v, a, b) == Min(a, b) <= v /\ v <= Max(a, b)

Abs(v) == IF v < 0 THEN 0 - v ELSE v

\* the line call asks for a horizontal, vertical or 45-degree segment
StraightOrDiagonal ==
    \/ fg.args[1] = fg.args[3]
    \/ fg.args[2] = fg.args[4]
    \/ Abs(fg.args[3] - fg.args[1]) = Abs(fg.args[4] - fg.args[2])

\* (x, y) is a pixel of that segment: within the endpoints on both axes and
\* on the straight line through them
OnSegment(x, y) ==
    /\ Between(x, fg.args[1], fg.args[3])
    /\ Between(y, fg.args[2], fg.args[4])
    /\ (x - fg.args[1]) * (fg.args[4] - fg.args[2])
          = (y - fg.args[2]) * (fg.args[3] - fg.args[1])

\* C12: a horizontal, vertical or 45-degree put_line with endpoints inside
\* the display writes the selected colour to exactly the pixels of the
\* segment, both endpoints included, and changes no other bit.
C12_StraightLines ==
    (Drawn("put_line") /\ fg.ret = OLED_EOK /\ EndpointsInside /\ StraightOrDiagonal) =>
        /\ Untouched
        /\ \A q \in BufferBits :
              Bit(mem.frame_buffer[q[1]], q[2]) =
                  IF OnSegment(BitX(q[1]), BitY(q[1], q[2]))
                  THEN fg.args[5] % 2
                  ELSE Bit(fg.before[q[1]], q[2])

\* a rising diagonal of four pixels, given from its right end, drawn on the
\* blank buffer
C12_Witness ==
    /\ Drawn("put_line") /\ fg.ret = OLED_EOK /\ EndpointsInside
    /\ fg.args[5] = OLED_BLACK /\ fg.before[1] = 0
    /\ fg.args[1] - fg.args[3] = 3 /\ fg.args[4] - fg.args[2] = 3
    /\ Cardinality(ChangedBits) = 4
    /\ Pixel(mem.frame_buffer, fg.args[1], fg.args[2]) = 1
    /\ Pixel(mem.frame_buffer, fg.args[3], fg.args[4]) = 1

\* the endpoints of a line call after limiting to the display
LineX0 == Clamp(fg.args[1], oled.width - 1)
LineY0 == Clamp(fg.args[2], oled.height - 1)
LineX1 == Clamp(fg.args[3], oled.width - 1)
LineY1 == Clamp(fg.args[4], oled.height - 1)

\* the call has left pixel (x, y) in the selected colour
HasColour(x, y) == Pixel(mem.frame_buffer, x, y) = fg.args[5] % 2

\* the call wrote pixel (x, y): seen on a background of the other colour
Wrote(x, y) ==
    /\ Pixel(mem.frame_buffer, x, y) = fg.args[5] % 2
    /\ Pixel(fg.before, x, y) # fg.args[5] % 2

\* C13: every put_line that returns OK writes both of its endpoints, as
\* limited to the display, whatever the inclination of the line.
C13_EndpointsDrawn ==
    (Drawn("put_line") /\ fg.ret = OLED_EOK) =>
        /\ HasColour(LineX0, LineY0)
        /\ HasColour(LineX1, LineY1)

\* the bit q of the frame buffer belongs to a pixel of the display
OnDisplay(q) == BitX(q[1]) < oled.width /\ BitY(q[1], q[2]) < oled.height

\* C14: no drawing call writes a bit of the frame buffer that belongs to no
\* pixel of the display, nor a byte outside the frame buffer; and every
\* pixel a put_line writes lies on or between its two endpoints, as limited
\* to the display, on both axes.
C14_WritesStayInside ==
    fg.pc = "done" =>
        /\ obs.stray = {}
        /\ \A q \in ChangedBits : OnDisplay(q)
        /\ Drawn("put_line") =>
              \A q \in ChangedBits :
                  /\ Between(BitX(q[1]), LineX0, LineX1)
                  /\ Between(BitY(q[1], q[2]), LineY0, LineY1)

(***************************************************************************)
(* SpecDriverAny: the display initialised with one of several heights and  *)
(* then refreshed.                                                         *)
(***************************************************************************)
Heights == {16, 32, 64}

AppInitAny ==
    /\ fg.pc = "start"
    /\ \E height \in Heights :
          LET r == OLED_init(St, DisplayWidth, height, AppAddr)
          IN /\ Become(r.st)
             /\ fg' = [fg EXCEPT !.pc = "app", !.ret = r.ret]

NextDriverAny ==
    \/ AppInitAny
    \/ RefreshCall \/ RefreshLock \/ RefreshPage0 \/ RefreshCmd \/ RefreshSched
    \/ Interrupt

SpecDriverAny == InitDriver /\ [][NextDriverAny]_vars

\* every byte put on the bus in the current transaction was read from
\* inside the array its pointer belongs to
AllReadsInside == obs.sent = Len(obs.wire)

\* C15: after init the page count of the handle is height / 8, for every
\* height; a refresh sends that many pages and reads no byte beyond the
\* width * ceil(height / 8) bytes of the frame buffer.
C15_PageCountFromHeight ==
    fg.pc # "start" =>
        /\ oled.num_pages = oled.height \div BitsPerPage
        /\ PageWritesDone <= oled.height \div BitsPerPage
        /\ AllReadsInside

\* descriptor a is a brightness command
IsBrightness(a) == a.prefix.arr = "setbrightness"

\* C16: a set_brightness call schedules one command transaction under the
\* lock, the lock is released by its completion, and the bytes sent are the
\* command with the level of that call: while the transaction is in flight
\* its bytes stay as they were when it was scheduled, also if set_brightness
\* is called again meanwhile.
C16_BrightnessAsCalled ==
    /\ (obs.outstanding = 1 /\ IsBrightness(obs.adm)) =>
          /\ oled.busy_lock = 0
          /\ mem.setbrightness = obs.adm.pre
    /\ (Completed /\ IsBrightness(obs.last.adm)) =>
          /\ obs.last.cbk = "OLED_cbk_unlock"
          /\ Bytes(obs.last.wire) = Expected(obs.last.adm)

\* the page index a completed set-cursor transaction selected
SelectedPage(w) == w[Len(w)].b - PageSelectBase

\* the pipeline transactions of the current refresh that were set-cursor
\* commands, by their place in the order of completion
SetCursorsDone == {k \in 1..Len(obs.rf.log) : IsCommand(obs.rf.log[k])}

\* C17: the refresh pipeline stops with the completion of the page-write of
\* page num_pages - 1: one refresh is num_pages set-cursor transactions and
\* num_pages page-writes, nothing is scheduled after them, the lock is free
\* once they are done, and every page-select command names a page in
\* 0..num_pages-1.
C17_PipelineStopsAfterLastPage ==
    obs.rf.started =>
        /\ Len(obs.rf.log) <= 2 * oled.num_pages
        /\ Cardinality(SetCursorsDone) <= oled.num_pages
        /\ \A k \in SetCursorsDone :
              SelectedPage(obs.rf.log[k]) \in 0..(oled.num_pages - 1)
        /\ PageWritesDone = oled.num_pages =>
              (obs.outstanding = 0 \/ ~(obs.adm.cbk \in PipelineCallbacks))

\* a general inclined line whose endpoints are at least one pixel away from
\* every edge of the display, drawn in the colour the buffer did not have
InclinedInside ==
    /\ Drawn("put_line") /\ fg.ret = OLED_EOK /\ ~StraightOrDiagonal
    /\ fg.args[1] \in 1..(oled.width - 2) /\ fg.args[3] \in 1..(oled.width - 2)
    /\ fg.args[2] \in 1..(oled.height - 2) /\ fg.args[4] \in 1..(oled.height - 2)
    /\ fg.before[1] # (fg.args[5] % 2) * (ByteMod - 1)

SpanX == Abs(fg.args[3] - fg.args[1])
SpanY == Abs(fg.args[4] - fg.args[2])

\* the pixels written at position m of the shorter axis: one stair
Stair(m) ==
    {q \in ChangedBits : (IF SpanX < SpanY THEN BitX(q[1]) ELSE BitY(q[1], q[2])) = m}

\* the positions on the shorter axis at which the line has a stair
Stairs ==
    {m \in 0..(Max(oled.width, oled.height) - 1) : Stair(m) # {}}

\* C18: a general inclined line is drawn as delta_small stairs; when
\* delta_big is a multiple of delta_small each stair is delta_big /
\* delta_small pixels long, otherwise delta_big mod delta_small of them are
\* one pixel longer than that and the others are delta_big / delta_small
\* pixels long.
C18_StairLengths ==
    InclinedInside =>
        LET delta_big == Max(SpanX, SpanY)
            delta_small == Min(SpanX, SpanY)
            short == delta_big \div delta_small
            long == {m \in Stairs : Cardinality(Stair(m)) = short + 1}
        IN /\ Cardinality(Stairs) = delta_small
           /\ \A m \in Stairs : Cardinality(Stair(m)) \in {short, short + 1}
           /\ Cardinality(long) = delta_big % delta_small

(***************************************************************************)
(* SpecRasterPair: one line drawn from either end, both calls starting     *)
(* from the same frame buffer.                                             *)
(***************************************************************************)
DrawLinePair ==
    /\ fg.pc = "ready"
    /\ \E x_from \in Xs, y_from \in Ys, x_to \in Xs, y_to \in Ys, params \in Params :
          LET r == OLED_put_line(St, x_from, y_from, x_to, y_to, params)
              back == OLED_put_line(St, x_to, y_to, x_from, y_from, params)
          IN /\ Become(r.st)
             /\ fg' = [pc |-> "done", op |-> "put_line", args |-> <<x_from, y_from, x_to, y_to, params>>,
                       ret |-> r.ret, fell |-> (r.ret = NoReturn),
                       before |-> mem.frame_buffer,
                       back |-> [ret |-> back.ret,
                                 frame_buffer |-> back.st.mem.frame_buffer,
                                 stray |-> back.st.obs.stray]]

NextRasterPair == DrawLinePair

SpecRasterPair == InitRaster /\ [][NextRasterPair]_vars

\* C19: put_line(x0, y0, x1, y1, p) and put_line(x1, y1, x0, y0, p), from
\* the same frame buffer, return the same result and leave the same frame
\* buffer.
C19_EndpointOrder ==
    fg.pc = "done" =>
        /\ fg.ret = fg.back.ret
        /\ mem.frame_buffer = fg.back.frame_buffer
        /\ obs.stray = fg.back.stray

\* an inclined line between two different points, one of them limited to
\* the display edge, drawn on the blank buffer
C19_Witness ==
    /\ fg.pc = "done" /\ fg.ret = OLED_EOK
    /\ fg.args[5] = OLED_BLACK /\ fg.before[1] = 0
    /\ ~StraightOrDiagonal
    /\ fg.args[1] > fg.args[3] /\ fg.args[2] < fg.args[4]
    /\ fg.args[1] >= oled.width
    /\ mem.frame_buffer # fg.before

\* C20: a completion callback runs with the FSM already back in IDLE and
\* nothing in between, so the transaction a pipeline callback schedules
\* from the interrupt handler is admitted at the first attempt; the retry
\* loop never spins inside the handler, where it could never end.
C20_AdmittedInHandler ==
    /\ ~obs.hang
    /\ ~obs.in_isr
    /\ (obs.outstanding = 1 /\ obs.adm.from_isr) =>
          /\ obs.adm.cbk \in PipelineCallbacks
          /\ i2c.callback = obs.adm.cbk
    /\ (Completed /\ obs.last.cbk = "OLED_cbk_setwritepage") =>
          (obs.outstanding = 1 /\ obs.adm.from_isr /\ obs.adm.cbk = "OLED_cbk_writepage")

\* a page-write scheduled from the handler is in flight while the
\* foreground is in the retry loop of a refresh
C20_Witness ==
    /\ obs.outstanding = 1 /\ obs.adm.from_isr
    /\ obs.adm.cbk = "OLED_cbk_setwritepage"
    /\ fg.pc = "refresh_lock"
    /\ ~obs.hang

(***************************************************************************)
(* SpecLoopFair: the foreground initialises the display and then calls     *)
(* refresh and set_brightness in any order without ever taking the lock    *)
(* itself; the peripheral delivers its interrupts and the processor goes   *)
(* on with a refresh it has entered.                                       *)
(***************************************************************************)
RefreshStep == RefreshLock \/ RefreshPage0 \/ RefreshCmd \/ RefreshSched

NextLoop ==
    \/ AppInit
    \/ RefreshCall \/ RefreshStep
    \/ BrightnessCall \/ BrightnessLock \/ BrightnessSched
    \/ Interrupt

SpecLoopFair ==
    InitDriver /\ [][NextLoop]_vars /\ WF_vars(Interrupt) /\ WF_vars(RefreshStep)

\* C21: with bus interrupts delivered, every refresh called by foreground
\* code that does not hold the lock returns, and the lock it took is
\* released again, whatever transaction (init, set_brightness, an earlier
\* refresh) was in flight when it was called: the foreground never waits
\* forever for the lock or for admission.
C21_RefreshReturns ==
    /\ (fg.pc = "refresh_lock") ~> (fg.pc = "app")
    /\ (fg.pc = "refresh_reset") ~> (oled.busy_lock = 1)
    /\ [](~obs.hang)

\* a refresh waiting for the lock while the pipeline of the previous one
\* is in flight
C21_Witness ==
    /\ fg.pc = "refresh_lock"
    /\ oled.busy_lock = 0
    /\ obs.rf.started /\ PageWritesDone >= 1
    /\ obs.outstanding = 1 /\ obs.adm.cbk \in PipelineCallbacks

====
